---- MODULE Spec2Model ----
(***************************************************************************)
(* Model of the clip / moment pipeline of the spill repository:            *)
(*   ClipProcessor   (src/clipsai/clipsai/clip/clipprocessor.py)            *)
(*   MomentProcessor (src/lighthouse/lighthouse/momentprocessor.py)         *)
(*   process_clip_for_moments (src/demo.py)                                 *)
(*                                                                         *)
(* Units.  Times are integers in hundredths of a second (see Seconds),     *)
(* confidences are integers in ten-thousandths (0.75 = 7500).  A file name *)
(* is the sequence of its "_"-separated parts (the ".mp4" suffix is        *)
(* implied); a part is a token, see Lit/Idx/TimeTok/ConfTok.               *)
(***************************************************************************)
EXTENDS Integers, Sequences, FiniteSets, TLC

VARIABLES
  \* ---- the application (Spec) ----
  video,        \* the video the session works on: [stem, downloaded, duration, highlights]
  clipDir,      \* yt_clipped/<stem>: [exists, files]
  momentDirs,   \* set of existing moment directories <<sanitized_query, clip_id>>
  momentFiles,  \* set of moment files [q, clip, file]
  pvCalls,      \* finished process_video calls, oldest first
  runs,         \* pipeline runs (process_clip_for_moments), oldest first; the last may be in progress
  lastCall,     \* what the latest process_clip call did (see ClipLog)
  \* ---- _create_manual_clips alone (SpecManual) ----
  mcDuration,   \* the probed duration, whole seconds
  mcResult,     \* [done, clip_info]: the returned clip_info once the call is made
  \* ---- _process_predictions alone (SpecPred, SpecRank) ----
  ppClip,       \* the clip the evaluations are about
  ppHistory,    \* the shared existing_moments list
  ppEvals,      \* the evaluations made so far: [window or predictions, trimOk, out]
  \* ---- process_clip_for_moments invoked by several requests at once (SpecRequests) ----
  handlers,     \* request -> [pc, query, listing, i, all_moments], see Handler
  \* ---- process_video invoked by several callers at once (SpecClippers) ----
  clippers      \* caller -> [pc, outcome, clip_info, j, result], see Clipper

vars == <<video, clipDir, momentDirs, momentFiles, pvCalls, runs, lastCall,
          mcDuration, mcResult, ppClip, ppHistory, ppEvals, handlers, clippers>>

appVars == <<video, clipDir, momentDirs, momentFiles, pvCalls, runs, lastCall>>
mcVars  == <<mcDuration, mcResult>>
ppVars  == <<ppClip, ppHistory, ppEvals>>
hdVars  == <<handlers, clippers>>

(***************************************************************************)
(* Bounds of the model                                                     *)
(***************************************************************************)
MaxDuration   == 450   \* SpecManual: durations 0..MaxDuration seconds
MaxVideoCalls == 2     \* Spec: process_video calls
MaxRuns       == 2     \* Spec: pipeline runs

(***************************************************************************)
(* Program constants                                                       *)
(***************************************************************************)
clip_duration        == 149    \* seconds
confidence_threshold == 7500   \* 0.75, in ten-thousandths

Seconds(s) == s * 100          \* whole seconds as a time of the model (hundredths)

Min(a, b) == IF a <= b THEN a ELSE b
Max(a, b) == IF a >= b THEN a ELSE b

(***************************************************************************)
(* Tokens of a file name and the conversions between numbers and tokens    *)
(***************************************************************************)
Lit(s)     == [k |-> "lit",  s |-> s,  n |-> 0]   \* a literal part: "video", "clip", "to", ...
Idx(i)     == [k |-> "idx",  s |-> "", n |-> i]   \* "{i:03d}"
TimeTok(t) == [k |-> "time", s |-> "", n |-> t]   \* "{x:.1f}s", t in tenths of a second
ConfTok(c) == [k |-> "conf", s |-> "", n |-> c]   \* "{x:.2f}",  c in hundredths

\* x / d rounded to the nearest integer, ties to even (x >= 0, d > 0): what
\* the format specs .1f and .2f do to a decimal value
RoundDiv(x, d) ==
  LET q == x \div d
      r == x % d
  IN  IF 2 * r < d THEN q
      ELSE IF 2 * r > d THEN q + 1
      ELSE IF q % 2 = 0 THEN q ELSE q + 1

Fmt1(t) == TimeTok(RoundDiv(t, 10))     \* f"{t:.1f}s" of a time in hundredths
Fmt2(c) == ConfTok(RoundDiv(c, 100))    \* f"{c:.2f}" of a confidence in ten-thousandths

ValueError == [ok |-> FALSE, v |-> 0]
Value(v)   == [ok |-> TRUE, v |-> v]

\* float(part[:-1]) as a time in hundredths: the part without its last character
DropLastFloat(tok) ==
  CASE tok.k = "time" -> Value(tok.n * 10)                  \* "149.0s" -> 149.0
    [] tok.k = "idx"  -> Value(Seconds(tok.n \div 10))        \* "001" -> "00" -> 0.0
    [] tok.k = "conf" -> Value((tok.n \div 10) * 10)        \* "0.90" -> "0.9"
    [] OTHER          -> ValueError                         \* "to" -> "t", "clip" -> "cli"

\* float(part) as a confidence in ten-thousandths
FloatTok(tok) ==
  CASE tok.k = "conf" -> Value(tok.n * 100)                 \* "0.90" -> 0.9
    [] tok.k = "idx"  -> Value(tok.n * 10000)               \* "001" -> 1.0
    [] OTHER          -> ValueError                         \* "149.0s", "conf"

\* all orders in which a directory listing can yield the files of a set
Listings(S) ==
  {s \in [1..Cardinality(S) -> S] : \A i, j \in 1..Cardinality(S) : i # j => s[i] # s[j]}

SeqToSet(s) == {s[i] : i \in 1..Len(s)}

(***************************************************************************)
(* ClipProcessor._create_manual_clips                                      *)
(***************************************************************************)
ClipFileName(video_id, clip_index, start_time, end_time) ==
  video_id \o <<Lit("clip"), Idx(clip_index), Fmt1(start_time), Lit("to"), Fmt1(end_time)>>

ClipInfo(filename, start_time, end_time) ==
  [filename |-> filename, start_time |-> start_time, end_time |-> end_time]

\* the end without the cut at the duration
ManualEndNoMin(current_time, duration) == current_time + clip_duration

\* line 55
ManualEnd(current_time, duration) == Min(current_time + clip_duration, duration)

RECURSIVE ManualLoop(_, _, _, _, _)
ManualLoop(current_time, duration, clip_index, video_id, clip_info) ==
  IF current_time >= duration THEN clip_info
  ELSE LET end_time == ManualEnd(current_time, duration)
       IN  ManualLoop(current_time + clip_duration, duration, clip_index + 1, video_id,
                      Append(clip_info,
                             ClipInfo(ClipFileName(video_id, clip_index,
                                                   Seconds(current_time), Seconds(end_time)),
                                      Seconds(current_time), Seconds(end_time))))

create_manual_clips(duration, video_id) == ManualLoop(0, duration, 1, video_id, <<>>)

ManualVideoId == <<Lit("video"), Lit("abc")>>

McInit ==
  /\ mcDuration \in 0..MaxDuration
  /\ mcResult = [done |-> FALSE, clip_info |-> <<>>]

\* the call, on the duration the probe gave
CreateManualClips ==
  /\ ~mcResult.done
  /\ mcResult' = [done |-> TRUE, clip_info |-> create_manual_clips(mcDuration, ManualVideoId)]
  /\ UNCHANGED <<mcDuration, appVars, ppVars, hdVars>>

(***************************************************************************)
(* ClipProcessor.process_video                                             *)
(***************************************************************************)
\* one file of the cache-read loop: parts[4][:-1] and parts[6][:-1] of the
\* name split at "_" (Python indices 4 and 6 are positions 5 and 7 here);
\* IndexError and ValueError both make the loop skip the file
ParseClipFile(file) ==
  IF Len(file) < 5 THEN [ok |-> FALSE, clip |-> ClipInfo(file, 0, 0)]
  ELSE LET start_time == DropLastFloat(file[5])
       IN  IF ~start_time.ok \/ Len(file) < 7
           THEN [ok |-> FALSE, clip |-> ClipInfo(file, 0, 0)]
           ELSE LET end_time == DropLastFloat(file[7])
                IN  [ok |-> end_time.ok, clip |-> ClipInfo(file, start_time.v, end_time.v)]

ClipParses(file) == ParseClipFile(file).ok

\* the clips the cache-read loop collects, in the order of the listing
CachedClips(listing) ==
  LET kept == SelectSeq(listing, ClipParses)
  IN  [i \in 1..Len(kept) |-> ParseClipFile(kept[i]).clip]

\* the file names numbered from 0
FoundClipsFromZero(clips, video_id) ==
  [i \in 1..Len(clips) |->
     ClipInfo(ClipFileName(video_id, i - 1, clips[i].start_time, clips[i].end_time),
              clips[i].start_time, clips[i].end_time)]

\* the clip_info built from the clip finder's windows (enumerate(clips))
FoundClips(clips, video_id) ==
  [i \in 1..Len(clips) |->
     ClipInfo(ClipFileName(video_id, i, clips[i].start_time, clips[i].end_time),
              clips[i].start_time, clips[i].end_time)]

\* clip_info of a call that found the output directory absent
Segment(v) ==
  IF v.highlights = <<>> THEN create_manual_clips(v.duration, v.stem)
  ELSE FoundClips(v.highlights, v.stem)

\* one call: how it ended, what it returned, what it did, and the listing of
\* the output directory it read (empty when it did not read one)
PvCall(outcome, result, cached, transcribed, manual, trims, listing) ==
  [outcome |-> outcome, result |-> result, cached |-> cached,
   transcribed |-> transcribed, manual |-> manual, trims |-> trims, listing |-> listing]

\* the video is not in yt_downloads: return [] (lines 87-89)
ProcessVideoMissing ==
  /\ ~video.downloaded
  /\ pvCalls' = Append(pvCalls, PvCall("returned", <<>>, FALSE, FALSE, FALSE, 0, <<>>))
  /\ UNCHANGED clipDir

\* the output directory exists: parse its listing (lines 96-112)
ProcessVideoCached ==
  /\ video.downloaded
  /\ clipDir.exists
  /\ \E listing \in Listings(clipDir.files) :
       pvCalls' = Append(pvCalls, PvCall("returned", CachedClips(listing), TRUE, FALSE, FALSE, 0, listing))
  /\ UNCHANGED clipDir

\* the transcriber raises after the directory was made (lines 115-119)
ProcessVideoTranscribeFails ==
  /\ video.downloaded
  /\ ~clipDir.exists
  /\ clipDir' = [exists |-> TRUE, files |-> {}]
  /\ pvCalls' = Append(pvCalls, PvCall("raised", <<>>, FALSE, TRUE, FALSE, 0, <<>>))

\* transcribe, find clips or split manually, trim every clip (lines 115-161);
\* a clip whose trim fails has no file but stays in the result
ProcessVideoFresh ==
  /\ video.downloaded
  /\ ~clipDir.exists
  /\ LET clip_info == Segment(video)
     IN  \E success \in [1..Len(clip_info) -> BOOLEAN] :
           /\ clipDir' = [exists |-> TRUE,
                          files  |-> {clip_info[i].filename : i \in {j \in 1..Len(clip_info) : success[j]}}]
           /\ pvCalls' = Append(pvCalls, PvCall("returned", clip_info, FALSE, TRUE,
                                                video.highlights = <<>>, Len(clip_info), <<>>))

RunInProgress == runs # <<>> /\ runs[Len(runs)].status = "running"

process_video ==
  /\ Len(pvCalls) < MaxVideoCalls
  /\ \/ ProcessVideoMissing
     \/ ProcessVideoCached
     \/ ProcessVideoTranscribeFails
     \/ ProcessVideoFresh
  /\ UNCHANGED <<video, momentDirs, momentFiles, runs, lastCall, mcVars, ppVars, hdVars>>

\* the first call of a session
FirstProcessVideo ==
  /\ pvCalls = <<>>
  /\ ~RunInProgress
  /\ \/ ProcessVideoMissing
     \/ ProcessVideoTranscribeFails
     \/ ProcessVideoFresh
  /\ UNCHANGED <<video, momentDirs, momentFiles, runs, lastCall, mcVars, ppVars, hdVars>>

(***************************************************************************)
(* MomentProcessor: helpers                                                *)
(***************************************************************************)
\* the position of the first "_word_" in a name: a part equal to word that
\* has a part before it and a part after it; 0 when there is none
SepIndex(name, word) ==
  LET hits == {i \in 2..(Len(name) - 1) : name[i] = Lit(word)}
  IN  IF hits = {} THEN 0 ELSE CHOOSE i \in hits : \A j \in hits : i <= j

\* text.split("_word_")[0]
BeforeSep(name, word) ==
  LET i == SepIndex(name, word)
  IN  IF i = 0 THEN name ELSE SubSeq(name, 1, i - 1)

\* text.split("_word_")[1]; ok is FALSE for the IndexError
AfterSep(name, word) ==
  LET i == SepIndex(name, word)
  IN  IF i = 0 THEN [ok |-> FALSE, parts |-> <<>>]
      ELSE [ok |-> TRUE, parts |-> BeforeSep(SubSeq(name, i + 1, Len(name)), word)]

\* float(part.replace("s", "")) as a time in hundredths
FloatNoS(tok) ==
  CASE tok.k = "time" -> Value(tok.n * 10)          \* "149.0s" -> 149.0
    [] tok.k = "idx"  -> Value(Seconds(tok.n))      \* "001" -> 1.0
    [] tok.k = "conf" -> Value(tok.n)               \* "0.90" -> 0.9
    [] OTHER          -> ValueError

\* basename(clip_dir).replace("video_", ""): every part "video" that is
\* followed by "_" goes
StripVideoPrefix(name) ==
  LET keep == {i \in 1..Len(name) : ~(name[i] = Lit("video") /\ i < Len(name))}
      RECURSIVE Build(_)
      Build(i) == IF i > Len(name) THEN <<>>
                  ELSE IF i \in keep THEN <<name[i]>> \o Build(i + 1)
                  ELSE Build(i + 1)
  IN  Build(1)

\* query.replace(" ", "_").lower(); a query is the sequence of its characters
LowerChar(c) ==
  CASE c = "A" -> "a"
    [] c = "B" -> "b"
    [] OTHER   -> c

SanitizeChar(c) == LowerChar(IF c = " " THEN "_" ELSE c)

sanitized(query) == [i \in 1..Len(query) |-> SanitizeChar(query[i])]

\* MomentProcessor._get_clip_timestamps: the start time in the clip's file
\* name; every failure is caught and gives 0.0
get_clip_timestamps(clip_filename) ==
  LET after == AfterSep(clip_filename, "clip")
  IN  IF ~after.ok THEN 0
      ELSE LET start_time_str == BeforeSep(after.parts, "to")
           IN  IF Len(start_time_str) < 2 THEN 0
               ELSE LET start_time == FloatNoS(start_time_str[2])
                    IN  IF start_time.ok THEN start_time.v ELSE 0

\* float(clip_filename.split("_to_")[1].replace("s.mp4", "")) (line 206);
\* not ok when the expression raises
ClipEndTime(clip_filename) ==
  LET i == SepIndex(clip_filename, "to")
  IN  IF i = 0 THEN ValueError
      ELSE IF i + 1 = Len(clip_filename) /\ clip_filename[i + 1].k = "time"
           THEN Value(clip_filename[i + 1].n * 10)
           ELSE ValueError

(***************************************************************************)
(* MomentProcessor._is_duplicate_moment                                    *)
(***************************************************************************)
\* every existing moment looked at, wherever it lies
WithinClipAlways(m, clip_start_time, clip_end_time) == TRUE

\* line 86: the existing moments the check looks at
WithinClip(m, clip_start_time, clip_end_time) ==
  m.start_time >= clip_start_time /\ m.end_time <= clip_end_time

\* lines 91-93
OverlapDuration(moment, existing) ==
  Max(0, Min(moment.end_time, existing.end_time) - Max(moment.start_time, existing.start_time))

\* the comparison with the boundary on the other side
OverlapsAtLeastHalf(overlap_duration, moment_duration) ==
  2 * overlap_duration >= moment_duration

\* line 97: overlap_duration > 0.5 * moment_duration
OverlapsSignificantly(overlap_duration, moment_duration) ==
  2 * overlap_duration > moment_duration

is_duplicate_moment(moment, existing_moments, clip_start_time, clip_end_time) ==
  \E i \in 1..Len(existing_moments) :
    /\ WithinClip(existing_moments[i], clip_start_time, clip_end_time)
    /\ OverlapsSignificantly(OverlapDuration(moment, existing_moments[i]),
                             moment.end_time - moment.start_time)

(***************************************************************************)
(* MomentProcessor._process_predictions                                    *)
(***************************************************************************)
Window(start_time, end_time, confidence) ==
  [start_time |-> start_time, end_time |-> end_time, confidence |-> confidence]

\* what predict can hand back: None, {}, a mapping without the key, or a
\* mapping with pred_relevant_windows
PredNone         == [kind |-> "none",    windows |-> <<>>]
PredEmpty        == [kind |-> "empty",   windows |-> <<>>]
PredNoKey        == [kind |-> "nokey",   windows |-> <<>>]
PredWindows(ws)  == [kind |-> "windows", windows |-> ws]

Moment(filename, start_time, end_time, confidence) ==
  [filename |-> filename, start_time |-> start_time, end_time |-> end_time,
   confidence |-> confidence]

\* the last window of the list taken
LastWindow(windows) == windows[Len(windows)]

\* line 184: the window the method works on
TopWindow(windows) == windows[1]

\* the time left relative to the clip
AbsTimeRelative(rel_time, clip_start_time) == rel_time

\* lines 187-188
AbsTime(rel_time, clip_start_time) == rel_time + clip_start_time

\* no confidence rejected
BelowThresholdNever(confidence) == FALSE

\* the threshold itself rejected
BelowThresholdInclusive(confidence) == confidence <= confidence_threshold

\* line 193
BelowThreshold(confidence) == confidence < confidence_threshold

\* line 214
MomentFileName(video_id, ordinal, abs_start_time, abs_end_time, confidence) ==
  <<Lit("video")>> \o video_id \o
  <<Lit("moment"), Idx(ordinal), Fmt1(abs_start_time), Lit("to"), Fmt1(abs_end_time),
    Lit("conf"), Fmt2(confidence)>>

\* the outcome of one call: raised, or the returned list; together with the
\* list existing_moments as the call leaves it, the file it wrote, the list
\* the duplicate check compared against (checked says whether it ran) and
\* the number of trims
PpOut(raised, moments, existing, written, checked, trims) ==
  [raised |-> raised, moments |-> moments, existing |-> existing,
   written |-> written, checked |-> checked, trims |-> trims]

\* the extraction run a second time after a failure
extract_moment_video_retried(trimOk) == [ok |-> trimOk, calls |-> IF trimOk THEN 1 ELSE 2]

\* lines 101-136: one ffmpeg run; True when it exits with 0, False otherwise
\* (an exception included)
extract_moment_video(trimOk) == [ok |-> trimOk, calls |-> 1]

\* the candidate appended before the extraction is known to have succeeded
HistoryAfterAppendFirst(existing_moments, moment, success) == Append(existing_moments, moment)

\* lines 218-226: existing_moments is appended to only under the if
HistoryAfter(existing_moments, moment, success) ==
  IF success THEN Append(existing_moments, moment) ELSE existing_moments

\* a variant that keeps every window at or above the threshold instead of the
\* top one only
process_predictions_every_window(predictions, video_id, clip_filename, existing_moments, clip_start_time, trimOk) ==
  LET ws   == SelectSeq(predictions.windows, LAMBDA w : ~BelowThreshold(w.confidence))
      made == [i \in 1..Len(ws) |->
                 Moment(MomentFileName(video_id, Len(existing_moments) + i,
                                       AbsTime(ws[i].start_time, clip_start_time),
                                       AbsTime(ws[i].end_time, clip_start_time),
                                       ws[i].confidence),
                        AbsTime(ws[i].start_time, clip_start_time),
                        AbsTime(ws[i].end_time, clip_start_time), ws[i].confidence)]
  IN  IF predictions.kind = "none"
        THEN PpOut(TRUE, <<>>, existing_moments, {}, FALSE, 0)
      ELSE IF ~trimOk
        THEN PpOut(FALSE, <<>>, existing_moments, {}, ws # <<>>, Len(ws))
      ELSE PpOut(FALSE, made, existing_moments \o made,
                 {made[i].filename : i \in 1..Len(made)}, ws # <<>>, Len(ws))

process_predictions(predictions, video_id, clip_filename, existing_moments, clip_start_time, trimOk) ==
  IF predictions.kind = "none"
    THEN PpOut(TRUE, <<>>, existing_moments, {}, FALSE, 0)   \* None.keys() at line 177
  ELSE IF predictions.kind \in {"empty", "nokey"} \/ predictions.windows = <<>>
    THEN PpOut(FALSE, <<>>, existing_moments, {}, FALSE, 0)
  ELSE
    LET w              == TopWindow(predictions.windows)
        abs_start_time == AbsTime(w.start_time, clip_start_time)
        abs_end_time   == AbsTime(w.end_time, clip_start_time)
        clip_end_time  == ClipEndTime(clip_filename)
        moment_filename == MomentFileName(video_id, Len(existing_moments) + 1,
                                          abs_start_time, abs_end_time, w.confidence)
        moment         == Moment(moment_filename, abs_start_time, abs_end_time, w.confidence)
    IN  IF BelowThreshold(w.confidence)
          THEN PpOut(FALSE, <<>>, existing_moments, {}, FALSE, 0)
        ELSE IF ~clip_end_time.ok
          THEN PpOut(TRUE, <<>>, existing_moments, {}, FALSE, 0)
        ELSE IF is_duplicate_moment(moment, existing_moments, clip_start_time, clip_end_time.v)
          THEN PpOut(FALSE, <<>>, existing_moments, {}, TRUE, 0)
        ELSE LET extracted == extract_moment_video(trimOk)
             IN  PpOut(FALSE, IF extracted.ok THEN <<moment>> ELSE <<>>,
                       HistoryAfter(existing_moments, moment, extracted.ok),
                       IF extracted.ok THEN {moment_filename} ELSE {},
                       TRUE, extracted.calls)

(***************************************************************************)
(* MomentProcessor.process_clip                                            *)
(***************************************************************************)
\* os.path.join(moments_dir, f"video_{video_id}", sanitized_query, clip_id)
OutputDir(clip_dir, clip_filename, query) ==
  [video |-> <<Lit("video")>> \o StripVideoPrefix(clip_dir),
   query |-> sanitized(query),
   clip  |-> clip_filename]

DirFiles(files, dir) == {f.file : f \in {g \in files : g.dir = dir}}

\* one file of the cache-read loop (lines 259-273): parts[4][:-1],
\* parts[6][:-1] and parts[8] are positions 5, 7 and 9 here
ParseMomentFile(file) ==
  IF Len(file) < 5 THEN [ok |-> FALSE, moment |-> Moment(file, 0, 0, 0)]
  ELSE LET start_time == DropLastFloat(file[5])
       IN  IF ~start_time.ok \/ Len(file) < 7
           THEN [ok |-> FALSE, moment |-> Moment(file, 0, 0, 0)]
           ELSE LET end_time == DropLastFloat(file[7])
                IN  IF ~end_time.ok \/ Len(file) < 9
                    THEN [ok |-> FALSE, moment |-> Moment(file, 0, 0, 0)]
                    ELSE LET confidence == FloatTok(file[9])
                         IN  [ok     |-> confidence.ok,
                              moment |-> Moment(file, start_time.v, end_time.v, confidence.v)]

MomentParses(file) == ParseMomentFile(file).ok

\* the loop left at the first file that does not parse
CachedMomentsUntilBad(listing) ==
  LET bad == {i \in 1..Len(listing) : ~MomentParses(listing[i])}
      n   == IF bad = {} THEN Len(listing) ELSE (CHOOSE i \in bad : \A j \in bad : i <= j) - 1
  IN  [i \in 1..n |-> ParseMomentFile(listing[i]).moment]

\* the moments the cache-read loop collects, in the order of the listing
CachedMoments(listing) ==
  LET kept == SelectSeq(listing, MomentParses)
  IN  [i \in 1..Len(kept) |-> ParseMomentFile(kept[i]).moment]

\* the cached list never returned
CacheHitNever(moments) == FALSE

\* line 274: the cached list is returned only when it is not empty
CacheHit(moments) == moments # <<>>

\* line 290: the existing_moments argument process_clip passes
ExistingMomentsArg == <<>>

\* what one call did: the clip and query, whether it answered from the
\* cache, whether it called encode_video and predict, the list the duplicate
\* check compared against (when checked), the trims, the top window, whether
\* the call computed a moment and accepted it, and the returned list; listing
\* is what the call read from the output directory (empty when there was none)
ClipLog(clip, query, dir, listing, cached, encoded, predicted, window, out, moments) ==
  [called |-> TRUE, listing |-> listing, clip |-> clip, query |-> query, dir |-> dir, cached |-> cached,
   encoded |-> encoded, predicted |-> predicted, window |-> window,
   checked |-> out.checked,
   history |-> IF out.checked THEN ExistingMomentsArg ELSE <<>>,
   trims |-> out.trims, accepted |-> ~cached /\ moments # <<>>, moments |-> moments]

NoOut == PpOut(FALSE, <<>>, <<>>, {}, FALSE, 0)
NoWindow == Window(0, 0, 0)

\* the call: its result, the directories and files it leaves, and its log.
\* listing is the order os.listdir yields the files of the output directory
\* in, encodeOk whether encode_video returns, predictions what predict
\* returns, trimOk whether ffmpeg succeeds
process_clip(dirs, files, clip_dir, clip_filename, query, listing, encodeOk, predictions, trimOk) ==
  LET video_id        == StripVideoPrefix(clip_dir)
      clip_start_time == get_clip_timestamps(clip_filename)
      output_dir      == OutputDir(clip_dir, clip_filename, query)
      listed          == IF output_dir \in dirs THEN listing ELSE <<>>
      cached          == CachedMoments(listed)
      window          == IF predictions.windows = <<>> THEN NoWindow
                         ELSE TopWindow(predictions.windows)
      out             == process_predictions(predictions, video_id, clip_filename,
                                             ExistingMomentsArg, clip_start_time, trimOk)
  IN  IF CacheHit(cached)
        THEN [moments |-> cached, dirs |-> dirs, files |-> files,
              log |-> ClipLog(clip_filename, query, output_dir, listed, TRUE, FALSE, FALSE, NoWindow, NoOut, cached)]
      ELSE IF ~encodeOk    \* encode_video raised: caught at line 298
        THEN [moments |-> <<>>, dirs |-> dirs \cup {output_dir}, files |-> files,
              log |-> ClipLog(clip_filename, query, output_dir, listed, FALSE, TRUE, FALSE, NoWindow, NoOut, <<>>)]
      ELSE [moments |-> IF out.raised THEN <<>> ELSE out.moments,
            dirs    |-> dirs \cup {output_dir},
            files   |-> files \cup {[dir |-> output_dir, file |-> f] : f \in out.written},
            log     |-> ClipLog(clip_filename, query, output_dir, listed, FALSE, TRUE, TRUE, window, out,
                                IF out.raised THEN <<>> ELSE out.moments)]

(***************************************************************************)
(* demo.py: process_clip_for_moments                                       *)
(***************************************************************************)
\* a run: its query, where it stands, the listing of the clip directory it
\* loops over and the position in it, all_moments with the clip each entry
\* came from (sources), the moments the run computed and accepted itself,
\* the number of process_clip calls that called encode_video, and the number
\* of clear_gpu_memory calls
Run(query, status, listing, i, all_moments, sources, accepted, encodes, clears) ==
  [query |-> query, status |-> status, listing |-> listing, i |-> i,
   all_moments |-> all_moments, sources |-> sources, accepted |-> accepted,
   encodes |-> encodes, clears |-> clears]

\* os.path.join(data_store_dir, "yt_clipped", f"video_{video_id}") (lines 70-75)
ClipsDirName(stem) == <<Lit("video")>> \o StripVideoPrefix(stem)

\* the directory process_video made is named by the stem (line 91)
ClipsDirExists == clipDir.exists /\ ClipsDirName(video.stem) = video.stem

Queries == { <<>>, <<"A", " ", "b">>, <<"a", "_", "b">> }

\* windows, relative to the clip: one inside every clip of the model, the
\* same under the threshold, and one that ends after the clip does
W1    == Window(Seconds(10), Seconds(20), 9000)
WLow  == Window(Seconds(10), Seconds(20), 7499)
WFar  == Window(Seconds(140), Seconds(160), 8000)

AppPredictions ==
  { PredNone, PredWindows(<<WLow, W1>>), PredWindows(<<W1>>), PredWindows(<<WFar, W1>>) }

\* the handler up to its loop: the guard on the inputs, the listing of the
\* clip directory (lines 62-84)
StartRun ==
  /\ Len(runs) < MaxRuns
  /\ ~RunInProgress
  /\ \E query \in Queries :
       \/ /\ query = <<>>
          /\ runs' = Append(runs, Run(query, "rejected", <<>>, 1, <<>>, <<>>, <<>>, 0, 0))
       \/ /\ query # <<>>
          /\ ~ClipsDirExists     \* os.listdir raises, caught at line 111
          /\ runs' = Append(runs, Run(query, "error", <<>>, 1, <<>>, <<>>, <<>>, 0, 1))
       \/ /\ query # <<>>
          /\ ClipsDirExists
          /\ \E clip_files \in Listings(clipDir.files) :
               runs' = Append(runs, Run(query,
                                        IF clip_files = <<>> THEN "no_clips" ELSE "running",
                                        clip_files, 1, <<>>, <<>>, <<>>, 0, 1))
  /\ UNCHANGED <<video, clipDir, momentDirs, momentFiles, pvCalls, lastCall, mcVars, ppVars, hdVars>>

\* the GPU memory not released after a clip
ClearsNotAfterClip(clears) == clears

\* lines 95-96: clear_gpu_memory() at the end of every turn of the loop
ClearsAfterClip(clears) == clears + 1

\* a loop that gives up at the first clip without a moment
StatusStopOnEmpty(i, n, moments) ==
  IF moments = <<>> THEN "error" ELSE IF i = n THEN "done" ELSE "running"

\* lines 88-98: whatever process_clip returned, the loop goes on to the next
\* file and the handler returns after the last one
StatusAfterClip(i, n, moments) == IF i = n THEN "done" ELSE "running"

\* one turn of the loop (lines 88-96); after the last clip the handler returns
ProcessNextClip ==
  /\ RunInProgress
  /\ LET r         == runs[Len(runs)]
         clip_file == r.listing[r.i]
         dir       == OutputDir(video.stem, clip_file, r.query)
     IN  \E listing \in Listings(DirFiles(momentFiles, dir)),
            encodeOk \in BOOLEAN, predictions \in AppPredictions, trimOk \in BOOLEAN :
           LET c == process_clip(momentDirs, momentFiles, video.stem, clip_file, r.query,
                                 listing, encodeOk, predictions, trimOk)
           IN  /\ momentDirs' = c.dirs
               /\ momentFiles' = c.files
               /\ lastCall' = c.log
               /\ runs' = [runs EXCEPT ![Len(runs)] =
                             Run(r.query,
                                 StatusAfterClip(r.i, Len(r.listing), c.moments),
                                 r.listing, r.i + 1, r.all_moments \o c.moments,
                                 r.sources \o [k \in 1..Len(c.moments) |-> clip_file],
                                 IF c.log.accepted THEN r.accepted \o c.moments
                                 ELSE r.accepted,
                                 r.encodes + (IF c.log.encoded THEN 1 ELSE 0),
                                 ClearsAfterClip(r.clears))]
  /\ UNCHANGED <<video, clipDir, pvCalls, mcVars, ppVars, hdVars>>

(***************************************************************************)
(* demo.py: process_clip_for_moments invoked for several requests at once. *)
(* The handler and process_clip hold no lock, so the steps of two          *)
(* invocations interleave at every call that blocks: the cache read, the   *)
(* encode_video call and the predict call                                  *)
(***************************************************************************)
Requests == {1, 2}

\* pc: "idle" before the request arrives, "loop" between two clips,
\* "encode" while model.encode_video runs (momentprocessor.py line 282),
\* "predict" while model.predict runs (line 286), "done" after the return
Handler(pc, query, listing, i, all_moments) ==
  [pc |-> pc, query |-> query, listing |-> listing, i |-> i, all_moments |-> all_moments]

IdleHandler == Handler("idle", <<>>, <<>>, 1, <<>>)

\* process_video in progress for a caller: pc is "idle" before the call,
\* "mkdir" after the call found the output directory absent (line 96),
\* "transcribe" after it made the directory (line 115), "trim" while it
\* creates the clips, j being the next one (lines 141-159), "done" after
\* the return
Callers == {1, 2}

Clipper(pc, outcome, clip_info, j, result) ==
  [pc |-> pc, outcome |-> outcome, clip_info |-> clip_info, j |-> j, result |-> result]

IdleClipper == Clipper("idle", "none", <<>>, 1, <<>>)

HdIdle ==
  /\ handlers = [r \in Requests |-> IdleHandler]
  /\ clippers = [c \in Callers |-> IdleClipper]

\* process_clip returned moments for the clip at h.i: extend and go on
\* (lines 91-93)
AfterClip(h, moments) ==
  Handler(IF h.i = Len(h.listing) THEN "done" ELSE "loop", h.query, h.listing, h.i + 1,
          h.all_moments \o moments)

\* lines 62-84
HandlerStart(r) ==
  /\ handlers[r].pc = "idle"
  /\ \E query \in Queries :
       \/ /\ query = <<>> \/ ~ClipsDirExists
          /\ handlers' = [handlers EXCEPT ![r] = Handler("done", query, <<>>, 1, <<>>)]
       \/ /\ query # <<>>
          /\ ClipsDirExists
          /\ \E clip_files \in Listings(clipDir.files) :
               handlers' = [handlers EXCEPT ![r] =
                              Handler(IF clip_files = <<>> THEN "done" ELSE "loop",
                                      query, clip_files, 1, <<>>)]
  /\ UNCHANGED <<appVars, mcVars, ppVars, clippers>>

\* process_clip up to the encode_video call (momentprocessor.py lines 241-282)
HandlerEnterClip(r) ==
  /\ handlers[r].pc = "loop"
  /\ LET h   == handlers[r]
         dir == OutputDir(video.stem, h.listing[h.i], h.query)
     IN  \E listing \in Listings(DirFiles(momentFiles, dir)) :
           LET cached == IF dir \in momentDirs THEN CachedMoments(listing) ELSE <<>>
           IN  IF CacheHit(cached)
               THEN /\ handlers' = [handlers EXCEPT ![r] = AfterClip(h, cached)]
                    /\ UNCHANGED momentDirs
               ELSE /\ handlers' = [handlers EXCEPT ![r].pc = "encode"]
                    /\ momentDirs' = momentDirs \cup {dir}
  /\ UNCHANGED <<video, clipDir, momentFiles, pvCalls, runs, lastCall, mcVars, ppVars, clippers>>

\* encode_video returns, and predict is called, or it raises and process_clip
\* returns [] (lines 282-286, 298-300)
EncodeReturns(r) ==
  /\ handlers[r].pc = "encode"
  /\ \E encodeOk \in BOOLEAN :
       handlers' = [handlers EXCEPT ![r] =
                      IF encodeOk THEN [@ EXCEPT !.pc = "predict"] ELSE AfterClip(@, <<>>)]
  /\ UNCHANGED <<appVars, mcVars, ppVars, clippers>>

\* predict returns and the predictions are processed (lines 286-296)
PredictReturns(r) ==
  /\ handlers[r].pc = "predict"
  /\ LET h         == handlers[r]
         clip_file == h.listing[h.i]
         dir       == OutputDir(video.stem, clip_file, h.query)
     IN  \E predictions \in AppPredictions, trimOk \in BOOLEAN :
           LET out == process_predictions(predictions, StripVideoPrefix(video.stem), clip_file,
                                          ExistingMomentsArg, get_clip_timestamps(clip_file), trimOk)
           IN  /\ momentFiles' = momentFiles \cup {[dir |-> dir, file |-> f] : f \in out.written}
               /\ handlers' = [handlers EXCEPT ![r] =
                                 AfterClip(h, IF out.raised THEN <<>> ELSE out.moments)]
  /\ UNCHANGED <<video, clipDir, momentDirs, pvCalls, runs, lastCall, mcVars, ppVars, clippers>>

(***************************************************************************)
(* clipprocessor.py: process_video invoked by several callers at once.  A  *)
(* call holds no lock: the test of the output directory, the makedirs, the *)
(* transcription and every trim are steps that other calls interleave with *)
(***************************************************************************)
\* lines 87-112: the video is not downloaded, or the directory is there and
\* is read, or it is absent
ClipperEnter(c) ==
  /\ clippers[c].pc = "idle"
  /\ \/ /\ ~video.downloaded
        /\ clippers' = [clippers EXCEPT ![c] = Clipper("done", "returned", <<>>, 1, <<>>)]
     \/ /\ video.downloaded
        /\ clipDir.exists
        /\ \E listing \in Listings(clipDir.files) :
             clippers' = [clippers EXCEPT ![c] =
                            Clipper("done", "returned", <<>>, 1, CachedClips(listing))]
     \/ /\ video.downloaded
        /\ ~clipDir.exists
        /\ clippers' = [clippers EXCEPT ![c].pc = "mkdir"]
  /\ UNCHANGED <<appVars, mcVars, ppVars, handlers>>

\* line 115: os.makedirs(output_dir, exist_ok=True)
ClipperMakeDir(c) ==
  /\ clippers[c].pc = "mkdir"
  /\ clipDir' = [clipDir EXCEPT !.exists = TRUE]
  /\ clippers' = [clippers EXCEPT ![c].pc = "transcribe"]
  /\ UNCHANGED <<video, momentDirs, momentFiles, pvCalls, runs, lastCall, mcVars, ppVars, handlers>>

\* lines 118-137: the transcriber raises, or the clip_info is built
ClipperSegment(c) ==
  /\ clippers[c].pc = "transcribe"
  /\ \/ clippers' = [clippers EXCEPT ![c] = Clipper("done", "raised", <<>>, 1, <<>>)]
     \/ LET clip_info == Segment(video)
        IN  clippers' = [clippers EXCEPT ![c] =
                           IF clip_info = <<>> THEN Clipper("done", "returned", <<>>, 1, <<>>)
                           ELSE Clipper("trim", "none", clip_info, 1, <<>>)]
  /\ UNCHANGED <<appVars, mcVars, ppVars, handlers>>

\* lines 141-161: one trim, which writes the clip's file when it succeeds;
\* after the last one the call returns clip_info
ClipperTrim(c) ==
  /\ clippers[c].pc = "trim"
  /\ LET k == clippers[c]
     IN  /\ \E success \in BOOLEAN :
              clipDir' = IF success
                         THEN [clipDir EXCEPT !.files = @ \cup {k.clip_info[k.j].filename}]
                         ELSE clipDir
         /\ clippers' = [clippers EXCEPT ![c] =
                           IF k.j = Len(k.clip_info)
                           THEN Clipper("done", "returned", k.clip_info, k.j + 1, k.clip_info)
                           ELSE Clipper("trim", "none", k.clip_info, k.j + 1, <<>>)]
  /\ UNCHANGED <<video, momentDirs, momentFiles, pvCalls, runs, lastCall, mcVars, ppVars, handlers>>

(***************************************************************************)
(* The application: one video, process_video calls and pipeline runs       *)
(***************************************************************************)
StemPlain      == <<Lit("video"), Lit("abc")>>
StemUnderscore == <<Lit("video"), Lit("a"), Lit("b")>>

Highlights == << [start_time |-> 1003, end_time |-> 2026],
                 [start_time |-> 3000, end_time |-> 4500] >>

\* a clip finder result whose second window ends before it starts
InvertedHighlights == << [start_time |-> 1003, end_time |-> 2026],
                         [start_time |-> 3000, end_time |-> 2000] >>

Video(stem, downloaded, duration, highlights) ==
  [stem |-> stem, downloaded |-> downloaded, duration |-> duration, highlights |-> highlights]

Videos ==
  { Video(StemPlain, FALSE, 200, <<>>),
    Video(StemPlain, TRUE, 0, <<>>),
    Video(StemPlain, TRUE, 200, <<>>),
    Video(StemPlain, TRUE, 200, Highlights),
    Video(StemUnderscore, TRUE, 100, <<>>) }

McIdle == mcDuration = 0 /\ mcResult = [done |-> FALSE, clip_info |-> <<>>]
PpIdle == ppClip = ClipInfo(<<>>, 0, 0) /\ ppHistory = <<>> /\ ppEvals = <<>>
NoCall ==
  [called |-> FALSE, listing |-> <<>>, clip |-> <<>>, query |-> <<>>,
   dir |-> [video |-> <<>>, query |-> <<>>, clip |-> <<>>],
   cached |-> FALSE, encoded |-> FALSE, predicted |-> FALSE, window |-> NoWindow,
   checked |-> FALSE, history |-> <<>>, trims |-> 0, accepted |-> FALSE, moments |-> <<>>]

AppIdle ==
  /\ lastCall = NoCall
  /\ video = Video(StemPlain, FALSE, 0, <<>>)
  /\ clipDir = [exists |-> FALSE, files |-> {}]
  /\ momentDirs = {}
  /\ momentFiles = {}
  /\ pvCalls = <<>>
  /\ runs = <<>>

Init ==
  /\ video \in Videos
  /\ clipDir = [exists |-> FALSE, files |-> {}]
  /\ momentDirs = {}
  /\ momentFiles = {}
  /\ pvCalls = <<>>
  /\ runs = <<>>
  /\ lastCall = NoCall
  /\ McIdle
  /\ HdIdle
  /\ PpIdle

Next == FirstProcessVideo \/ StartRun \/ ProcessNextClip

Spec == Init /\ [][Next]_vars


(***************************************************************************)
(* _create_manual_clips on every duration                                  *)
(***************************************************************************)
InitManual == McInit /\ AppIdle /\ PpIdle /\ HdIdle

NextManual == CreateManualClips

SpecManual == InitManual /\ [][NextManual]_vars

(***************************************************************************)
(* process_video calls alone, on more videos                               *)
(***************************************************************************)
VideosForClipping ==
  Videos \cup { Video(StemUnderscore, TRUE, 200, <<>>),
                Video(StemPlain, TRUE, 149, <<>>),
                Video(StemPlain, TRUE, 300, <<>>),
                Video(StemPlain, TRUE, 450, <<>>),
                Video(StemUnderscore, TRUE, 300, Highlights),
                Video(StemPlain, TRUE, 200, InvertedHighlights) }

InitVideo ==
  /\ video \in VideosForClipping
  /\ clipDir = [exists |-> FALSE, files |-> {}]
  /\ momentDirs = {}
  /\ momentFiles = {}
  /\ pvCalls = <<>>
  /\ runs = <<>>
  /\ lastCall = NoCall
  /\ McIdle
  /\ HdIdle
  /\ PpIdle

NextVideo == process_video

SpecVideo == InitVideo /\ [][NextVideo]_vars

(***************************************************************************)
(* _process_predictions alone: two windows of one clip evaluated in turn   *)
(* on one existing_moments list, which starts empty as in process_clip     *)
(***************************************************************************)
PpClips == SeqToSet(create_manual_clips(200, ManualVideoId))

PpTimes == {Seconds(0), Seconds(5), Seconds(10), Seconds(15), Seconds(150)}

PpConfidences == {7499, 7500, 9000}

PpWindows ==
  {Window(a, b, c) : a \in PpTimes, b \in PpTimes, c \in PpConfidences}

InitPred ==
  /\ ppClip \in PpClips
  /\ ppHistory = ExistingMomentsArg
  /\ ppEvals = <<>>
  /\ AppIdle
  /\ McIdle
  /\ HdIdle

\* one call of _process_predictions on the shared list
EvaluatePrediction ==
  /\ Len(ppEvals) < 2
  /\ \E w \in PpWindows, trimOk \in BOOLEAN :
       LET out == process_predictions(PredWindows(<<w>>), StripVideoPrefix(ManualVideoId),
                                      ppClip.filename, ppHistory,
                                      get_clip_timestamps(ppClip.filename), trimOk)
       IN  /\ ppHistory' = out.existing
           /\ ppEvals' = Append(ppEvals, [window |-> w, trimOk |-> trimOk, out |-> out])
  /\ UNCHANGED <<ppClip, appVars, mcVars, hdVars>>

NextPred == EvaluatePrediction

SpecPred == InitPred /\ [][NextPred]_vars

(***************************************************************************)
(* _process_predictions on whole predictor outputs: two calls for one clip *)
(* that differ in the predictor output only, each on its own empty list    *)
(***************************************************************************)
WBound == Window(Seconds(30), Seconds(40), confidence_threshold)

RankWindows == {WLow, W1, WFar, WBound}

RankPredictions ==
  {PredNone, PredEmpty, PredNoKey, PredWindows(<<>>)}
  \cup {PredWindows(<<a>>) : a \in RankWindows}
  \cup {PredWindows(<<a, b>>) : a \in RankWindows, b \in RankWindows}

InitRank ==
  /\ ppClip \in PpClips
  /\ ppHistory = ExistingMomentsArg
  /\ ppEvals = <<>>
  /\ AppIdle
  /\ McIdle
  /\ HdIdle

\* one call, on existing_moments = [] as process_clip passes it (line 290)
Evaluation(predictions, trimOk) ==
  [predictions |-> predictions, trimOk |-> trimOk,
   out |-> process_predictions(predictions, StripVideoPrefix(ManualVideoId), ppClip.filename,
                               ExistingMomentsArg, get_clip_timestamps(ppClip.filename), trimOk)]

ComparePredictions ==
  /\ ppEvals = <<>>
  /\ \E p \in RankPredictions, q \in RankPredictions, trimOk \in BOOLEAN :
       ppEvals' = <<Evaluation(p, trimOk), Evaluation(q, trimOk)>>
  /\ UNCHANGED <<ppClip, ppHistory, appVars, mcVars, hdVars>>

NextRank == ComparePredictions

SpecRank == InitRank /\ [][NextRank]_vars

(***************************************************************************)
(* The cache-read loops over directories that also hold files the          *)
(* application did not write                                               *)
(***************************************************************************)
\* video_abc_clip_001.mp4 has no parts[4] (IndexError)
ForeignClipFiles == { StemPlain \o <<Lit("clip"), Idx(1)>> }

\* in video_abc_moment_001_preview.mp4 parts[4][:-1] is no float (ValueError)
ForeignMomentFiles == { StemPlain \o <<Lit("moment"), Idx(1), Lit("preview")>> }

VideosForCache == { Video(StemPlain, FALSE, 100, <<>>), Video(StemPlain, TRUE, 100, <<>>) }

InitCache ==
  /\ video \in VideosForCache
  /\ clipDir = [exists |-> FALSE, files |-> {}]
  /\ momentDirs = {}
  /\ momentFiles = {}
  /\ pvCalls = <<>>
  /\ runs = <<>>
  /\ lastCall = NoCall
  /\ McIdle
  /\ HdIdle
  /\ PpIdle

\* a file appears in the clip directory between two calls
DropClipFile ==
  /\ clipDir.exists
  /\ ~lastCall.called
  /\ \E f \in ForeignClipFiles : clipDir' = [clipDir EXCEPT !.files = @ \cup {f}]
  /\ UNCHANGED <<video, momentDirs, momentFiles, pvCalls, runs, lastCall, mcVars, ppVars, hdVars>>

\* a file appears in the moment directory of a clip
DropMomentFile ==
  /\ \E dir \in momentDirs, f \in ForeignMomentFiles :
       momentFiles' = momentFiles \cup {[dir |-> dir, file |-> f]}
  /\ UNCHANGED <<video, clipDir, momentDirs, pvCalls, runs, lastCall, mcVars, ppVars, hdVars>>

\* the clipping step of a session comes before its queries
ClipBeforeQueries == ~lastCall.called /\ process_video

\* one process_clip call, as the loop of the handler makes it for a file of
\* the clip directory (demo.py lines 88-91)
ProcessOneClip ==
  /\ ClipsDirExists
  /\ \E clip_file \in clipDir.files, query \in Queries \ {<<>>} :
       \E listing \in Listings(DirFiles(momentFiles, OutputDir(video.stem, clip_file, query))),
          encodeOk \in BOOLEAN, predictions \in AppPredictions, trimOk \in BOOLEAN :
         LET c == process_clip(momentDirs, momentFiles, video.stem, clip_file, query,
                               listing, encodeOk, predictions, trimOk)
         IN  /\ momentDirs' = c.dirs
             /\ momentFiles' = c.files
             /\ lastCall' = c.log
  /\ UNCHANGED <<video, clipDir, pvCalls, runs, mcVars, ppVars, hdVars>>

NextCache == ClipBeforeQueries \/ DropClipFile \/ ProcessOneClip \/ DropMomentFile

SpecCache == InitCache /\ [][NextCache]_vars

(***************************************************************************)
(* Two requests for moments handled at once, after one process_video call  *)
(***************************************************************************)
InitRequests == InitCache

NextRequests ==
  \/ FirstProcessVideo
  \/ \E r \in Requests : HandlerStart(r)
  \/ \E r \in Requests : HandlerEnterClip(r)
  \/ \E r \in Requests : EncodeReturns(r)
  \/ \E r \in Requests : PredictReturns(r)

SpecRequests == InitRequests /\ [][NextRequests]_vars

(***************************************************************************)
(* One process_clip call on every short query string                       *)
(***************************************************************************)
\* an upper-case and a lower-case letter, a space, a tab and an underscore
QueryChars == {"A", "b", " ", "\t", "_"}

QueryStrings ==
  {<<c>> : c \in QueryChars} \cup {<<c, d>> : c \in QueryChars, d \in QueryChars}

InitQuery == InitCache

\* the first process_clip call of a session (demo.py line 91)
ProcessClipAnyQuery ==
  /\ ~lastCall.called
  /\ ClipsDirExists
  /\ \E clip_file \in clipDir.files, query \in QueryStrings :
       \E encodeOk \in BOOLEAN, predictions \in AppPredictions, trimOk \in BOOLEAN :
         LET c == process_clip(momentDirs, momentFiles, video.stem, clip_file, query,
                               <<>>, encodeOk, predictions, trimOk)
         IN  /\ momentDirs' = c.dirs
             /\ momentFiles' = c.files
             /\ lastCall' = c.log
  /\ UNCHANGED <<video, clipDir, pvCalls, runs, mcVars, ppVars, hdVars>>

NextQuery == FirstProcessVideo \/ ProcessClipAnyQuery

SpecQuery == InitQuery /\ [][NextQuery]_vars

(***************************************************************************)
(* Pipeline runs over a clip directory that also holds a foreign file      *)
(***************************************************************************)
InitRuns == InitCache

NextRuns == FirstProcessVideo \/ DropClipFile \/ StartRun \/ ProcessNextClip

SpecRuns == InitRuns /\ [][NextRuns]_vars

(***************************************************************************)
(* process_clip called again and again for the clips of one video, the     *)
(* predictor giving windows whose times and confidences have more decimals *)
(* than the file names keep                                                *)
(***************************************************************************)
\* 10.03 s to 20.26 s at 0.7777, and 12.51 s to 20.76 s at 0.8049
WFine  == Window(1003, 2026, 7777)
WFiner == Window(1251, 2076, 8049)

FinePredictions == { PredWindows(<<WFine>>), PredWindows(<<WFiner>>), PredWindows(<<W1>>) }

VideosForRound ==
  { Video(StemPlain, FALSE, 200, <<>>),
    Video(StemPlain, TRUE, 200, <<>>),
    Video(StemPlain, TRUE, 200, Highlights) }

InitRound ==
  /\ video \in VideosForRound
  /\ clipDir = [exists |-> FALSE, files |-> {}]
  /\ momentDirs = {}
  /\ momentFiles = {}
  /\ pvCalls = <<>>
  /\ runs = <<>>
  /\ lastCall = NoCall
  /\ McIdle
  /\ HdIdle
  /\ PpIdle

ProcessClipFine ==
  /\ ClipsDirExists
  /\ \E clip_file \in clipDir.files, query \in Queries \ {<<>>} :
       \E listing \in Listings(DirFiles(momentFiles, OutputDir(video.stem, clip_file, query))),
          encodeOk \in BOOLEAN, predictions \in FinePredictions, trimOk \in BOOLEAN :
         LET c == process_clip(momentDirs, momentFiles, video.stem, clip_file, query,
                               listing, encodeOk, predictions, trimOk)
         IN  /\ momentDirs' = c.dirs
             /\ momentFiles' = c.files
             /\ lastCall' = c.log
  /\ UNCHANGED <<video, clipDir, pvCalls, runs, mcVars, ppVars, hdVars>>

NextRound == FirstProcessVideo \/ ProcessClipFine

SpecRound == InitRound /\ [][NextRound]_vars

(***************************************************************************)
(* Two process_video calls for one video at once                           *)
(***************************************************************************)
InitClippers == InitRound

NextClippers ==
  \/ \E c \in Callers : ClipperEnter(c)
  \/ \E c \in Callers : ClipperMakeDir(c)
  \/ \E c \in Callers : ClipperSegment(c)
  \/ \E c \in Callers : ClipperTrim(c)

SpecClippers == InitClippers /\ [][NextClippers]_vars

(***************************************************************************)
(* Pipeline runs over the clips of a two-clip video when every external    *)
(* call returns: a turn of the loop that has begun comes to its end        *)
(***************************************************************************)
InitFair == InitRound

\* the first request of the application
FirstRun == runs = <<>> /\ StartRun

NextFair == FirstProcessVideo \/ FirstRun \/ ProcessNextClip

SpecFair == InitFair /\ [][NextFair]_vars /\ WF_vars(ProcessNextClip)

(***************************************************************************)
(* Properties                                                              *)
(***************************************************************************)
FileNames(items) == [i \in 1..Len(items) |-> items[i].filename]

\* the clip index and the clip's own range, read off the segment that
\* process_video returned under this file name
ClipIndexOf(clip_filename) == clip_filename[Len(video.stem) + 2].n

SegmentOf(clip_filename) ==
  CHOOSE c \in SeqToSet(pvCalls[1].result) : c.filename = clip_filename

\* the latest process_clip call belongs to the latest run
CallOfLatestRun == runs # <<>> /\ runs[Len(runs)].i > 1 /\ lastCall.called

\* C1: two process_video calls for the same downloaded video return the
\* same file names in the same order, and the second call neither
\* transcribes nor segments nor trims
C1_SecondCallSameClips ==
  (Len(pvCalls) >= 2 /\ video.downloaded
     /\ pvCalls[1].outcome = "returned" /\ pvCalls[2].outcome = "returned")
  => /\ FileNames(pvCalls[2].result) = FileNames(pvCalls[1].result)
     /\ ~pvCalls[2].transcribed
     /\ ~pvCalls[2].manual
     /\ pvCalls[2].trims = 0

\* C2 as claimed: a second run for the same video and query returns the
\* list of the first run and calls encode/predict for no clip
C2_SecondRunFromCache ==
  (Len(runs) = 2 /\ runs[1].status = "done" /\ runs[2].status = "done"
     /\ runs[1].query = runs[2].query)
  => /\ runs[2].all_moments = runs[1].all_moments
     /\ runs[2].encodes = 0

\* the moments the first run returned for a clip, when the cache-read loop
\* can parse their file names
StoredByFirstRun(clip_filename) ==
  {runs[1].all_moments[k].filename :
     k \in {j \in 1..Len(runs[1].all_moments) :
              /\ runs[1].sources[j] = clip_filename
              /\ MomentParses(runs[1].all_moments[j].filename)}}

\* C2 as amended: in a second run for the same video and query, a clip for
\* which the first run returned a moment under a parseable file name is
\* answered from that file without encode/predict, and every other clip is
\* encoded again
C2_CachedClipNotRecomputed ==
  (Len(runs) = 2 /\ runs[1].status = "done" /\ runs[1].query = runs[2].query
     /\ CallOfLatestRun)
  => IF StoredByFirstRun(lastCall.clip) # {}
       THEN /\ lastCall.cached
            /\ ~lastCall.encoded
            /\ ~lastCall.predicted
            /\ SeqToSet(FileNames(lastCall.moments)) = StoredByFirstRun(lastCall.clip)
       ELSE ~lastCall.cached /\ lastCall.encoded

C2_Witness ==
  /\ Len(runs) = 2 /\ runs[1].status = "done" /\ runs[2].status = "done"
  /\ runs[1].query = runs[2].query
  /\ Len(runs[1].all_moments) = 1
  /\ runs[2].encodes = 1
  /\ lastCall.cached /\ Len(lastCall.moments) = 1

\* C3: for every duration D >= 0 the manual segmentation gives ceil(D/149)
\* segments numbered 1..n, segment i starting at 149*(i-1), each ending
\* where the next starts, the first at 0 and the last at D with length
\* D - 149*(n-1)
C3_ManualSegmentation ==
  mcResult.done =>
    LET c == mcResult.clip_info
        n == Len(c)
        D == mcDuration
    IN  /\ 149 * n >= D
        /\ n > 0 => 149 * (n - 1) < D
        /\ \A i \in 1..n :
             /\ c[i].start_time = Seconds(149 * (i - 1))
             /\ c[i].start_time < c[i].end_time
             /\ c[i].filename[Len(ManualVideoId) + 2] = Idx(i)
        /\ \A i \in 1..(n - 1) : c[i].end_time = c[i + 1].start_time
        /\ n > 0 => /\ c[n].end_time = Seconds(D)
                    /\ c[n].end_time - c[n].start_time = Seconds(D - 149 * (n - 1))

C3_Witness ==
  /\ mcResult.done
  /\ mcDuration = 300
  /\ Len(mcResult.clip_info) = 3
  /\ mcResult.clip_info[3].start_time = Seconds(298)
  /\ mcResult.clip_info[3].end_time = Seconds(300)

\* C4: the top window is rejected for its confidence exactly when the
\* confidence is below 0.75; at 0.75 the call goes on to the duplicate check
\* and, when that passes and the trim succeeds, returns the moment
C4_ThresholdBoundary ==
  \A k \in 1..Len(ppEvals) :
    LET e == ppEvals[k]
    IN  /\ e.window.confidence < 7500
             <=> (~e.out.checked /\ e.out.moments = <<>> /\ e.out.trims = 0)
        /\ (e.window.confidence >= 7500 /\ e.out.trims = 1 /\ e.trimOk)
             => /\ Len(e.out.moments) = 1
                /\ e.out.moments[1].confidence = e.window.confidence

C4_Witness ==
  /\ Len(ppEvals) = 2
  /\ ppEvals[1].window.confidence = 7500
  /\ Len(ppEvals[1].out.moments) = 1
  /\ ppEvals[2].window.confidence = 7499
  /\ ppEvals[2].out.moments = <<>>
  /\ ~ppEvals[2].out.checked

\* the overlap of a window of the clip, in absolute time, with a moment
WindowOverlap(w, m) ==
  Max(0, Min(w.end_time + ppClip.start_time, m.end_time)
         - Max(w.start_time + ppClip.start_time, m.start_time))

\* C5: with the first window accepted as a moment inside the clip, a second
\* window that passes the threshold and whose trim succeeds is rejected when
\* its overlap with that moment is more than half its own duration and is
\* accepted as a second moment when the overlap is at most half
C5_DuplicateByOverlap ==
  (/\ Len(ppEvals) = 2
   /\ Len(ppEvals[1].out.moments) = 1
   /\ ppEvals[1].out.moments[1].start_time >= ppClip.start_time
   /\ ppEvals[1].out.moments[1].end_time <= ppClip.end_time
   /\ ppEvals[2].window.confidence >= 7500
   /\ ppEvals[2].trimOk)
  => LET first == ppEvals[1].out.moments[1]
         w     == ppEvals[2].window
         out   == ppEvals[2].out
     IN  IF 2 * WindowOverlap(w, first) > w.end_time - w.start_time
           THEN out.moments = <<>> /\ out.trims = 0 /\ ppHistory = <<first>>
           ELSE /\ Len(out.moments) = 1
                /\ out.moments[1].start_time = w.start_time + ppClip.start_time
                /\ out.moments[1].end_time = w.end_time + ppClip.start_time
                /\ ppHistory = <<first, out.moments[1]>>

C5_Witness ==
  /\ Len(ppEvals) = 2
  /\ ppClip.start_time = Seconds(149)
  /\ ppEvals[1].window = Window(Seconds(0), Seconds(10), 9000)
  /\ Len(ppEvals[1].out.moments) = 1
  /\ ppEvals[2].window = Window(Seconds(0), Seconds(15), 9000)
  /\ ppEvals[2].trimOk
  /\ ppEvals[2].out.moments = <<>>
  /\ Len(ppHistory) = 1

\* the start time in a clip's file name, in hundredths
NameStart(clip_filename) == clip_filename[Len(video.stem) + 3].n * 10

\* C6: a moment that process_clip computes and accepts has the window's
\* times shifted by the start time in the clip's file name and is written as
\* video_{id}_moment_{ordinal:03d}_{start:.1f}s_to_{end:.1f}s_conf_{confidence:.2f}.mp4;
\* the window [10,20) with confidence 0.9 on the clip starting at 149 gives
\* [159.0,169.0) under ..._moment_001_159.0s_to_169.0s_conf_0.90.mp4
C6_AbsoluteTimesAndName ==
  lastCall.accepted =>
    LET m == lastCall.moments[1]
        w == lastCall.window
        S == NameStart(lastCall.clip)
    IN  /\ m.start_time = w.start_time + S
        /\ m.end_time = w.end_time + S
        /\ m.confidence = w.confidence
        /\ m.filename = <<Lit("video")>> \o Tail(video.stem) \o
             <<Lit("moment"), Idx(1), TimeTok(RoundDiv(m.start_time, 10)), Lit("to"),
               TimeTok(RoundDiv(m.end_time, 10)), Lit("conf"),
               ConfTok(RoundDiv(m.confidence, 100))>>
        /\ [dir |-> lastCall.dir, file |-> m.filename] \in momentFiles
        /\ (w = Window(1000, 2000, 9000) /\ S = 14900)
             => /\ m.start_time = 15900 /\ m.end_time = 16900
                /\ m.filename = <<Lit("video")>> \o Tail(video.stem) \o
                     <<Lit("moment"), Idx(1), TimeTok(1590), Lit("to"), TimeTok(1690),
                       Lit("conf"), ConfTok(90)>>

C6_Witness ==
  /\ lastCall.accepted
  /\ lastCall.window = Window(1000, 2000, 9000)
  /\ NameStart(lastCall.clip) = 14900
  /\ lastCall.moments[1].filename =
       <<Lit("video"), Lit("abc"), Lit("moment"), Idx(1), TimeTok(1590), Lit("to"),
         TimeTok(1690), Lit("conf"), ConfTok(90)>>

\* C7: every moment accepted for a clip lies within the clip:
\* clip.start_time <= moment.start_time < moment.end_time <= clip.end_time
C7_MomentWithinClip ==
  lastCall.accepted =>
    LET m == lastCall.moments[1]
        c == SegmentOf(lastCall.clip)
    IN  /\ c.start_time <= m.start_time
        /\ m.start_time < m.end_time
        /\ m.end_time <= c.end_time

ParseableIn(dir) == {f \in DirFiles(momentFiles, dir) : MomentParses(f)}

\* C8: process_clip returns at most one moment, computed or read back: the
\* returned list has at most one entry and no moment directory ever holds
\* more than one file that a cache read would return
C8_AtMostOneMoment ==
  /\ Len(lastCall.moments) <= 1
  /\ \A dir \in momentDirs : Cardinality(ParseableIn(dir)) <= 1

C8_Witness ==
  /\ Len(runs) = 2
  /\ lastCall.cached
  /\ Len(lastCall.moments) = 1
  /\ \E dir \in momentDirs : Cardinality(ParseableIn(dir)) = 1

\* C9: the aggregated list of a run is in clip order: the moments of a clip
\* with a lower index come before those of a clip with a higher index
C9_ClipOrder ==
  \A r \in 1..Len(runs) :
    \A a, b \in 1..Len(runs[r].sources) :
      a < b => ClipIndexOf(runs[r].sources[a]) <= ClipIndexOf(runs[r].sources[b])

\* C10: when a run checks the candidate of a clip for duplicates, the list
\* it compares against holds every moment the run accepted for the clips
\* before it
C10_HistoryHasPriorMoments ==
  (CallOfLatestRun /\ lastCall.checked)
  => LET r     == runs[Len(runs)]
         prior == SubSeq(r.accepted, 1, Len(r.accepted) - (IF lastCall.accepted THEN 1 ELSE 0))
     IN  SeqToSet(prior) \subseteq SeqToSet(lastCall.history)

\* C11: process_video answers from the clip directory only when the
\* directory holds a parseable clip file: a call that took the cached path
\* returns at least one segment, and a call that found the directory without
\* one runs segmentation instead of returning the empty list
C11_CachedOnlyWhenParseable ==
  \A k \in 1..Len(pvCalls) :
    (video.downloaded /\ pvCalls[k].cached) => pvCalls[k].result # <<>>

\* C12: a window with start < 0 or start >= end makes segmentation fail:
\* the call does not return segments and leaves no clip file
InvalidWindow(w) == w.start_time < 0 \/ w.start_time >= w.end_time

HasInvalidWindow(v) ==
  \E i \in 1..Len(v.highlights) : InvalidWindow(v.highlights[i])

C12_InvalidWindowFails ==
  (video.downloaded /\ HasInvalidWindow(video))
  => /\ clipDir.files = {}
     /\ \A k \in 1..Len(pvCalls) :
          pvCalls[k].result = <<>> /\ (~pvCalls[k].cached => pvCalls[k].outcome = "raised")

\* C16: a call that segments with a non-empty clip finder result returns one
\* segment per window, in the order of the windows, with the indices 1..n
\* in the file names and each window's start and end; the manual split is
\* not used
C16_OneSegmentPerWindow ==
  \A k \in 1..Len(pvCalls) :
    (pvCalls[k].outcome = "returned" /\ ~pvCalls[k].cached
       /\ video.downloaded /\ video.highlights # <<>>)
    => LET result == pvCalls[k].result
       IN  /\ Len(result) = Len(video.highlights)
           /\ \A i \in 1..Len(result) :
                /\ result[i].start_time = video.highlights[i].start_time
                /\ result[i].end_time = video.highlights[i].end_time
                /\ ClipIndexOf(result[i].filename) = i
                /\ result[i].filename[Len(video.stem) + 1] = Lit("clip")
           /\ ~pvCalls[k].manual
           /\ FileNames(result) # FileNames(create_manual_clips(video.duration, video.stem))

C16_Witness ==
  /\ video.highlights = Highlights
  /\ Len(pvCalls) >= 1
  /\ pvCalls[1].outcome = "returned"
  /\ Len(pvCalls[1].result) = 2
  /\ ClipIndexOf(pvCalls[1].result[2].filename) = 2

\* C13: a segment that process_video returned but whose file is absent makes
\* the pipeline report a failure for that clip: a run over such a video does
\* not end as a normal run ("done", or "no_clips") that never touched the clip
MissingClips ==
  IF pvCalls = <<>> THEN {}
  ELSE {c \in SeqToSet(pvCalls[1].result) : c.filename \notin clipDir.files}

C13_MissingClipReported ==
  \A r \in 1..Len(runs) :
    MissingClips # {} => runs[r].status \notin {"done", "no_clips"}

\* the list existing_moments as the k-th evaluation found it
HistoryBefore(k) == IF k = 1 THEN ExistingMomentsArg ELSE ppEvals[k - 1].out.existing

\* C14: when the trim of an accepted candidate fails, _process_predictions
\* returns no moment, leaves existing_moments as it found it, writes no
\* file, and has run the trim once only
C14_TrimFailure ==
  \A k \in 1..Len(ppEvals) :
    LET e == ppEvals[k]
    IN  (e.out.trims >= 1 /\ ~e.trimOk)
        => /\ ~e.out.raised
           /\ e.out.moments = <<>>
           /\ e.out.existing = HistoryBefore(k)
           /\ ppHistory = ppEvals[Len(ppEvals)].out.existing
           /\ e.out.written = {}
           /\ e.out.trims = 1

\* a failed trim after an accepted moment: the list still holds that moment
\* alone
C14_Witness ==
  /\ Len(ppEvals) = 2
  /\ Len(ppEvals[1].out.moments) = 1
  /\ ppEvals[2].out.trims = 1
  /\ ~ppEvals[2].trimOk
  /\ ppHistory = ppEvals[1].out.moments

\* C19: within one process_clip call encode_video, predict and the trim are
\* each invoked at most once, whatever their outcome: a failed trim is not
\* run again, a call whose encode_video raised does not encode again or
\* predict, a call answered from the cache invokes none of them, and a run
\* has encoded at most once per clip it has processed
C19_AtMostOnceEach ==
  /\ lastCall.trims <= 1
  /\ lastCall.predicted => lastCall.encoded
  /\ lastCall.trims = 1 => lastCall.predicted
  /\ lastCall.cached => (~lastCall.encoded /\ ~lastCall.predicted /\ lastCall.trims = 0)
  /\ \A r \in 1..Len(runs) : runs[r].encodes <= runs[r].i - 1

\* a call whose trim failed, in a run that encoded every clip so far
C19_Witness ==
  /\ CallOfLatestRun
  /\ lastCall.encoded /\ lastCall.predicted
  /\ lastCall.trims = 1
  /\ lastCall.moments = <<>>
  /\ runs[Len(runs)].encodes = 2

\* C15: for every empty or malformed predictor output (None, an empty
\* mapping, a mapping without pred_relevant_windows, an empty window list)
\* _process_predictions returns the empty list as a normal value, without
\* raising, and runs neither the duplicate check nor the trim
Malformed(predictions) == predictions.kind # "windows" \/ predictions.windows = <<>>

C15_MalformedGivesEmpty ==
  \A k \in 1..Len(ppEvals) :
    Malformed(ppEvals[k].predictions)
    => /\ ~ppEvals[k].out.raised
       /\ ppEvals[k].out.moments = <<>>
       /\ ~ppEvals[k].out.checked
       /\ ppEvals[k].out.trims = 0

\* C20: the outcome of _process_predictions depends on the first entry of
\* pred_relevant_windows only: two outputs with the same first window give
\* the same outcome whatever follows it, and a first window under the
\* threshold gives no moment even when a later window reaches the threshold
SameTopWindow(p, q) ==
  /\ ~Malformed(p) /\ ~Malformed(q)
  /\ p.windows[1] = q.windows[1]

C18_UnparsableSkipped ==
  /\ \A k \in 1..Len(pvCalls) :
       pvCalls[k].cached
       => /\ pvCalls[k].outcome = "returned"
          /\ FileNames(pvCalls[k].result) = SelectSeq(pvCalls[k].listing, ClipParses)
  /\ (lastCall.called /\ SelectSeq(lastCall.listing, MomentParses) # <<>>)
     => /\ lastCall.cached
        /\ FileNames(lastCall.moments) = SelectSeq(lastCall.listing, MomentParses)

\* both loops have read a directory with a foreign file before a file of
\* the application's, and returned the latter
C18_Witness ==
  /\ \E k \in 1..Len(pvCalls) :
       /\ pvCalls[k].cached
       /\ Len(pvCalls[k].listing) >= 2
       /\ ~ClipParses(pvCalls[k].listing[1])
       /\ Len(pvCalls[k].result) = 1
  /\ lastCall.cached
  /\ Len(lastCall.listing) = 2
  /\ ~MomentParses(lastCall.listing[1])
  /\ Len(lastCall.moments) = 1

\* C17: at no time are two encode_video / predict invocations of the shared
\* model in progress at once
InModel(r) == handlers[r].pc \in {"encode", "predict"}

C17_ModelExclusive ==
  \A r1, r2 \in Requests : (InModel(r1) /\ InModel(r2)) => r1 = r2

\* C21: an existing moment that is not fully inside the clip's range
\* [clip_start_time, clip_end_time] never makes a candidate a duplicate,
\* however much the two overlap: with such a moment alone in the list a
\* candidate that passes the threshold goes on to the trim and is accepted
\* when the trim succeeds
C21_OutsideClipNotCompared ==
  (/\ Len(ppEvals) = 2
   /\ Len(ppEvals[1].out.moments) = 1
   /\ ~(/\ ppEvals[1].out.moments[1].start_time >= ppClip.start_time
        /\ ppEvals[1].out.moments[1].end_time <= ppClip.end_time)
   /\ ppEvals[2].window.confidence >= confidence_threshold)
  => /\ ppEvals[2].out.checked
     /\ ppEvals[2].out.trims = 1
     /\ ppEvals[2].trimOk => (Len(ppEvals[2].out.moments) = 1 /\ Len(ppHistory) = 2)

\* the same window twice, reaching past the end of the clip: the second is
\* accepted although it overlaps the first entirely
C21_Witness ==
  /\ Len(ppEvals) = 2
  /\ ppEvals[1].window = Window(Seconds(0), Seconds(150), 9000)
  /\ ppEvals[2].window = Window(Seconds(0), Seconds(150), 9000)
  /\ Len(ppEvals[1].out.moments) = 1
  /\ ppEvals[1].out.moments[1].end_time > ppClip.end_time
  /\ Len(ppEvals[2].out.moments) = 1
  /\ Len(ppHistory) = 2

\* a step that is one process_clip call of the running pipeline
ProcessClipStep == RunInProgress /\ runs' # runs

\* C22: a process_clip call whose top-ranked window is under the threshold
\* returns no moment, runs no trim, and leaves the moment files of every
\* (video, query, clip) as they were
C22_BelowThresholdNoEffect ==
  [][(/\ ProcessClipStep
      /\ lastCall'.predicted
      /\ lastCall'.window # NoWindow
      /\ lastCall'.window.confidence < confidence_threshold)
     => (/\ lastCall'.moments = <<>>
         /\ lastCall'.trims = 0
         /\ ~lastCall'.accepted
         /\ momentFiles' = momentFiles
         /\ runs'[Len(runs)].all_moments = runs[Len(runs)].all_moments)]_vars

\* the second clip of a run got a window under the threshold after the
\* first clip's moment was stored: that file is still the only one
C22_Witness ==
  /\ CallOfLatestRun
  /\ lastCall.predicted
  /\ lastCall.window = WLow
  /\ lastCall.moments = <<>>
  /\ Len(runs[Len(runs)].all_moments) = 1
  /\ Cardinality(momentFiles) = 1
  /\ DirFiles(momentFiles, lastCall.dir) = {}

\* C23: the segments of a call answered from the cache are in increasing
\* order of the clip index of their file names, whatever order the
\* directory listing had
C23_CachedInIndexOrder ==
  \A k \in 1..Len(pvCalls) :
    pvCalls[k].cached
    => \A a, b \in 1..Len(pvCalls[k].result) :
         a < b => ClipIndexOf(pvCalls[k].result[a].filename)
                    < ClipIndexOf(pvCalls[k].result[b].filename)

\* C24: the moment directory of a call is keyed by the query lower-cased
\* with every whitespace character replaced by an underscore
Whitespace == {" ", "\t"}

KeyOf(query) ==
  [i \in 1..Len(query) |-> IF query[i] \in Whitespace THEN "_" ELSE LowerChar(query[i])]

C24_QueryKey ==
  lastCall.called
  => /\ lastCall.dir.query = KeyOf(lastCall.query)
     /\ lastCall.dir \in momentDirs

\* C25: a clip that fails (encode_video or predict raising, a malformed
\* prediction, a clip name that does not parse, a failed trim) does not stop
\* the run: the run goes on while clips are left, ends as "done" after the
\* last one with every clip visited, and its result holds every moment it
\* accepted
C25_FailureDoesNotStopRun ==
  \A k \in 1..Len(runs) :
    LET r == runs[k]
    IN  r.listing # <<>>
        => /\ r.status = (IF r.i <= Len(r.listing) THEN "running" ELSE "done")
           /\ r.clears = r.i
           /\ SeqToSet(r.accepted) \subseteq SeqToSet(r.all_moments)
           /\ r.status = "done" => r.i = Len(r.listing) + 1

\* a run that met the unparsable clip name first, encoded both clips, and
\* ended with the moment of the clip after it
C25_Witness ==
  /\ Len(runs) = 1
  /\ runs[1].status = "done"
  /\ Len(runs[1].listing) = 2
  /\ runs[1].listing[1] \in ForeignClipFiles
  /\ runs[1].encodes = 2
  /\ Len(runs[1].accepted) = 1
  /\ runs[1].sources = <<runs[1].listing[2]>>

\* C26: whatever the video id, every clip file that process_video wrote and
\* every moment file that _process_predictions wrote is parsed into an
\* entry by the cache-read loop of its directory
C26_WrittenNamesParse ==
  /\ \A f \in clipDir.files : ClipParses(f)
  /\ \A g \in momentFiles : MomentParses(g.file)

\* a call that computed and stored a moment, followed by the call that
\* reads that moment back from the same directory
ReadBackStep ==
  /\ lastCall.called /\ lastCall.accepted
  /\ lastCall'.cached
  /\ lastCall'.dir = lastCall.dir

\* C27: the moment read back from the cache has the start_time, end_time
\* and confidence of the moment as it was returned when computed
C27_ReadBackEqualsComputed ==
  [][ReadBackStep
     => /\ Len(lastCall'.moments) = 1
        /\ lastCall'.moments[1].filename = lastCall.moments[1].filename
        /\ lastCall'.moments[1].start_time = lastCall.moments[1].start_time
        /\ lastCall'.moments[1].end_time = lastCall.moments[1].end_time
        /\ lastCall'.moments[1].confidence = lastCall.moments[1].confidence]_vars

\* C28: however two process_video calls for one video interleave, each call
\* that returns gives the clip sequence a single call gives
C28_InterleavedCallsSameClips ==
  \A c \in Callers :
    (video.downloaded /\ clippers[c].pc = "done" /\ clippers[c].outcome = "returned")
    => FileNames(clippers[c].result) = FileNames(Segment(video))

\* C29: a moment that process_clip returns for a query was produced by a
\* predict call made with that very query string: a call of the second run
\* that answers from the cache returns a moment stored by the first run, so
\* the first run had the same query
C29_NoSharingBetweenQueries ==
  (Len(runs) = 2 /\ CallOfLatestRun /\ lastCall.cached)
  => runs[1].query = runs[2].query

\* the latest run has returned its aggregated result
LatestRunDone == runs # <<>> /\ runs[Len(runs)].status = "done"

\* the runs are exact so far: the listing names every file of the clip
\* directory once, the clips before position i have been handed to
\* process_clip once each, and the GPU memory was released once before the
\* loop and once after each of them
RunsExact ==
  \A k \in 1..Len(runs) :
    LET r == runs[k]
    IN  r.status \in {"running", "done"}
        => /\ SeqToSet(r.listing) = clipDir.files
           /\ Len(r.listing) = Cardinality(clipDir.files)
           /\ r.clears = r.i
           /\ r.status = "done" <=> r.i = Len(r.listing) + 1
           /\ r.encodes <= r.i - 1
           /\ k = Len(runs) /\ r.i > 1 => lastCall.clip = r.listing[r.i - 1]

\* C30: a run over a clip directory with n files hands every file to
\* process_clip exactly once, releases the GPU memory after each of them,
\* and then returns its aggregated result, when every external call returns
C30_RunTerminates == []RunsExact /\ (RunInProgress ~> LatestRunDone)

\* a finished run over two clips that computed both
C30_Witness ==
  /\ LatestRunDone
  /\ Len(runs[Len(runs)].listing) = 2
  /\ runs[Len(runs)].i = 3
  /\ runs[Len(runs)].clears = 3
  /\ runs[Len(runs)].encodes = 2

====
